---- MODULE Spec2Model ----
(***************************************************************************)
(* OpenCL context lifecycle of pycbc: gpuinsp_checkError,                  *)
(* gpuinsp_DestroyGPU and gpuinsp_InitGPU of                               *)
(* src/pycbc/clayer/opencl/gpu_inspiral_gpuutils.c, run against an OpenCL  *)
(* runtime whose calls may fail.                                           *)
(*                                                                         *)
(* Handles are naturals: a runtime object's handle is its index in objs,   *)
(* NULL is 0.  Platform and device handles are their 1-based position in   *)
(* the runtime's enumeration.                                              *)
(***************************************************************************)
EXTENDS Integers, Sequences, FiniteSets, TLC

VARIABLES
    c,      \* the cl_context_t records, by record id
    rt,     \* the runtime: number of platforms, availability of each GPU device
    objs,   \* every object the runtime ever created; its handle is its index
    pc,     \* position of the running call ("idle" between calls)
    op,     \* the running (or just finished) call: "init", "destroy", "none"
    cur,    \* the record the running call was given
    loc,    \* the locals of gpuinsp_InitGPU
    heap,   \* host blocks allocated by the running call and not yet freed
    log,    \* the calls issued by the running call, in order
    diag,   \* the codes gpuinsp_checkError wrote to stderr in the running call
    ret,    \* the value the call returned (read when pc = "done")
    hist,   \* the call that completed before the running one
    calls,  \* number of calls started
    pure,   \* a call of gpuinsp_getErrMessage / gpuinsp_checkError on its own
    vec,    \* a data vector made by a new_* constructor, and what became of it
    twin    \* a build kept for comparison with a second build from the same state

vars == <<c, rt, objs, pc, op, cur, loc, heap, log, diag, ret, hist, calls,
          pure, vec, twin>>

----------------------------------------------------------------------------
\* Bounds of the model.
MaxCalls == 3
MaxPlatforms == 1
MaxDevices == 2
MaxAbsErr == 66
MaxVecLen == 8
MaxDeviceId == 1
MaxEarlier == 1

\* Status codes of the runtime, as gpuinsp_getErrMessage names them.
CL_SUCCESS == 0
CL_DEVICE_NOT_FOUND == -1
CL_OUT_OF_RESOURCES == -5
CL_INVALID_DEVICE == -33
CL_INVALID_CONTEXT == -34
CL_INVALID_COMMAND_QUEUE == -36
CL_INVALID_MEM_OBJECT == -38

NULL == 0

\* What gpuinsp_InitGPU returns when there is no platform or the scanned
\* device is not available: return -1.
NoAccelerator == -1

\* A handle value that names no object.
Garbage == 4 * (MaxCalls + 1) + 1

Contexts == {1}

Seqs(S, n) == UNION {[1..m -> S] : m \in 0..n}

\* The failures the runtime may answer a call with, besides those its
\* arguments force.
FailCodes(f) ==
    IF f = "clGetDeviceIDs" THEN {CL_DEVICE_NOT_FOUND, CL_OUT_OF_RESOURCES}
    ELSE {CL_OUT_OF_RESOURCES}

Statuses(f) == {CL_SUCCESS} \cup FailCodes(f)

Ev(f, h, st) == [f |-> f, h |-> h, st |-> st]

IsLive(h, kind) == h \in 1..Len(objs) /\ objs[h].kind = kind /\ objs[h].live

NoLocals ==
    [err |-> 0, numPlatforms |-> 0, numDevices |-> 0, i |-> 0,
     AvailableDevice |-> NULL, testdata_gpu |-> NULL, testdata_cpu |-> "NULL",
     base |-> 0, device_id |-> 0]

\* The values of the argument `unsigned device_id` of gpuinsp_InitGPU.
DeviceIds == 0..MaxDeviceId

\* No build is kept for comparison.
NoTwin ==
    [phase |-> "off", calls0 |-> 0, c0 |-> <<>>, objs0 |-> <<>>,
     device_id |-> 0, testdata_gpu |-> NULL,
     log |-> <<>>, diag |-> <<>>, ret |-> 0, c |-> <<>>, objs |-> <<>>]

NoCall == [op |-> "none", k |-> 0, ret |-> 0]

\* No call of the error functions on their own, and no vector.
NoPure == [fn |-> "none", err |-> 0, errstr |-> "", ret |-> 0, out |-> <<>>,
           errMessage |-> ""]

NoVec == [kind |-> "none", length |-> 0, state |-> "none", blocks |-> {},
          data |-> "NULL", bad |-> FALSE]

----------------------------------------------------------------------------
\* gpuinsp_getErrMessage, lines 37-193: the switch over the status codes.
\* The cases CL_SUCCESS .. CL_MAP_FAILURE are the codes 0 .. -12, the cases
\* CL_INVALID_VALUE .. CL_INVALID_GLOBAL_WORK_SIZE the codes -30 .. -63; the
\* two cases for -13 and -14 are commented out (lines 79-86).
GeneralNames ==
    <<"CL_SUCCESS", "CL_DEVICE_NOT_FOUND", "CL_DEVICE_NOT_AVAILABLE",
      "CL_COMPILER_NOT_AVAILABLE", "CL_MEM_OBJECT_ALLOCATION_FAILURE",
      "CL_OUT_OF_RESOURCES", "CL_OUT_OF_HOST_MEMORY",
      "CL_PROFILING_INFO_NOT_AVAILABLE", "CL_MEM_COPY_OVERLAP",
      "CL_IMAGE_FORMAT_MISMATCH", "CL_IMAGE_FORMAT_NOT_SUPPORTED",
      "CL_BUILD_PROGRAM_FAILURE", "CL_MAP_FAILURE">>

InvalidNames ==
    <<"CL_INVALID_VALUE", "CL_INVALID_DEVICE_TYPE", "CL_INVALID_PLATFORM",
      "CL_INVALID_DEVICE", "CL_INVALID_CONTEXT",
      "CL_INVALID_QUEUE_PROPERTIES", "CL_INVALID_COMMAND_QUEUE",
      "CL_INVALID_HOST_PTR", "CL_INVALID_MEM_OBJECT",
      "CL_INVALID_IMAGE_FORMAT_DESCRIPTOR", "CL_INVALID_IMAGE_SIZE",
      "CL_INVALID_SAMPLER", "CL_INVALID_BINARY", "CL_INVALID_BUILD_OPTIONS",
      "CL_INVALID_PROGRAM", "CL_INVALID_PROGRAM_EXECUTABLE",
      "CL_INVALID_KERNEL_NAME", "CL_INVALID_KERNEL_DEFINITION",
      "CL_INVALID_KERNEL", "CL_INVALID_ARG_INDEX", "CL_INVALID_ARG_VALUE",
      "CL_INVALID_ARG_SIZE", "CL_INVALID_KERNEL_ARGS",
      "CL_INVALID_WORK_DIMENSION", "CL_INVALID_WORK_GROUP_SIZE",
      "CL_INVALID_WORK_ITEM_SIZE", "CL_INVALID_GLOBAL_OFFSET",
      "CL_INVALID_EVENT_WAIT_LIST", "CL_INVALID_EVENT",
      "CL_INVALID_OPERATION", "CL_INVALID_GL_OBJECT",
      "CL_INVALID_BUFFER_SIZE", "CL_INVALID_MIP_LEVEL",
      "CL_INVALID_GLOBAL_WORK_SIZE">>

FirstInvalid == 30

gpuinsp_getErrMessage_NoLastCase(err) ==
    IF (1 - err) \in DOMAIN GeneralNames THEN GeneralNames[1 - err]
    ELSE IF (1 - FirstInvalid - err) \in 1..(Len(InvalidNames) - 1)
           THEN InvalidNames[1 - FirstInvalid - err]
    ELSE "Unknown error"

gpuinsp_getErrMessage(err) ==
    IF (1 - err) \in DOMAIN GeneralNames THEN GeneralNames[1 - err]
    ELSE IF (1 - FirstInvalid - err) \in DOMAIN InvalidNames
           THEN InvalidNames[1 - FirstInvalid - err]
    ELSE "Unknown error"

gpuinsp_checkError_Always(err, errstr) ==
    [ret |-> err,
     out |-> <<[label |-> errstr, code |-> err, name |-> gpuinsp_getErrMessage(err)]>>]

\* gpuinsp_checkError, lines 199-208: when err is not CL_SUCCESS one line
\* "ERROR: <errstr> (<err>, <name>)." goes to stderr; err is returned.
gpuinsp_checkError(err, errstr) ==
    [ret |-> err,
     out |-> IF err # CL_SUCCESS
               THEN <<[label |-> errstr, code |-> err,
                       name |-> gpuinsp_getErrMessage(err)]>>
               ELSE <<>>]

\* The errstr each guarded call of gpuinsp_InitGPU passes (lines 239-302).
LabelOf(f) ==
    IF f = "clCreateBuffer" THEN "Test allocation in GPU memory"
    ELSE IF f = "clEnqueueWriteBuffer" THEN "Test writing to  GPU memory"
    ELSE "Determining number of platforms"

\* stderr after gpuinsp_checkError looked at the status st of call f.
CheckError(d, f, st) == d \o gpuinsp_checkError(st, LabelOf(f)).out

\* Whether the guard `gpuinsp_checkError(err, ...) != 0` sends st to cleanup.
Fails(f, st) == gpuinsp_checkError(st, LabelOf(f)).ret # 0

----------------------------------------------------------------------------
\* The caller's records start zeroed, the runtime has created nothing, and no
\* call is running.  With no platform the runtime has no device either.
\* Line 227: Platforms = new cl_platform_id[10].
PlatformCapacity == 10

\* The platform counts the runtime may report: the small ones, and one more
\* than the platform array holds.
PlatformCounts == (0..MaxPlatforms) \cup {PlatformCapacity + 1}

Init ==
    /\ c = [k \in Contexts |->
                [platform |-> NULL, device |-> NULL, context |-> NULL,
                 kernel_queue |-> NULL, io_queue |-> NULL]]
    /\ \E n \in PlatformCounts, av \in Seqs(BOOLEAN, MaxDevices) :
         /\ n = 0 => av = <<>>
         /\ rt = [nplat |-> n, avail |-> av]
    /\ objs = <<>>
    /\ pc = "idle"
    /\ op = "none"
    /\ cur = 0
    /\ loc = NoLocals
    /\ heap = {}
    /\ log = <<>>
    /\ diag = <<>>
    /\ ret = 0
    /\ hist = NoCall
    /\ calls = 0
    /\ twin = NoTwin
    /\ pure = NoPure
    /\ vec = NoVec

\* What a handle variable without initialiser may hold: NULL, a value that
\* names no object, or the handle an earlier call left in the same place (for
\* testdata_gpu, a buffer an earlier build created).  Any other value is
\* answered by the runtime like Garbage.
Uninitialised(kind) ==
    {NULL, Garbage} \cup {h \in 1..Len(objs) : objs[h].kind = kind}

\* Entry of gpuinsp_InitGPU(c, device_id): the declarations of lines 224-236.
\* Platforms is allocated with new[]; testdata_gpu has no initialiser.
Call_InitGPU(k) ==
    /\ pc = "idle"
    /\ calls < MaxCalls
    /\ calls' = calls + 1
    /\ op' = "init"
    /\ cur' = k
    /\ \E g \in Uninitialised("buffer"), d \in DeviceIds :
         loc' = [NoLocals EXCEPT !.testdata_gpu = g, !.base = Len(objs),
                                 !.device_id = d]
    /\ heap' = {"Platforms"}
    /\ log' = <<>>
    /\ diag' = <<>>
    /\ pc' = "L238"
    /\ UNCHANGED <<c, rt, objs, ret, hist, pure, vec, twin>>

\* One hardware call answered with status st, whose result gpuinsp_checkError
\* guards: the locals and the stream after it, and where control goes.
Guarded(f, h, st, l, okpc) ==
    /\ log' = Append(log, Ev(f, h, st))
    /\ diag' = CheckError(diag, f, st)
    /\ loc' = l
    /\ pc' = IF Fails(f, st) THEN "cleanup" ELSE okpc

\* The answers the runtime can give to call f when its arguments force the
\* status forced (CL_SUCCESS when they force nothing).
Answers(f, forced) == IF forced # CL_SUCCESS THEN {forced} ELSE Statuses(f)

\* Lines 238-241 and 246: clGetPlatformIDs(0, NULL, &numPlatforms), then the
\* test 0 < numPlatforms, whose else branch returns -1 at once.
L238_GetNumPlatforms ==
    /\ pc = "L238"
    /\ \E st \in Statuses("clGetPlatformIDs") :
         LET n == IF st = CL_SUCCESS THEN rt.nplat ELSE loc.numPlatforms
             l == [loc EXCEPT !.err = st, !.numPlatforms = n]
         IN  /\ log' = Append(log, Ev("clGetPlatformIDs", 0, st))
             /\ diag' = CheckError(diag, "clGetPlatformIDs", st)
             /\ loc' = l
             /\ IF Fails("clGetPlatformIDs", st)
                  THEN pc' = "cleanup" /\ ret' = ret
                  ELSE IF 0 < n
                         THEN pc' = "L243" /\ ret' = ret
                         ELSE pc' = "done" /\ ret' = NoAccelerator
    /\ UNCHANGED <<c, rt, objs, op, cur, heap, hist, calls, pure, vec, twin>>

\* Line 243 asks the runtime for num_entries = numPlatforms handles in an
\* array of PlatformCapacity entries.  A successful call that writes more
\* handles than the array holds writes past its end: the process may go on
\* or may be ended there.
AfterPlatformWrite(n, st) ==
    IF st = CL_SUCCESS /\ n > PlatformCapacity THEN {"L254", "crashed"}
    ELSE {"L254"}

\* Lines 243-245: clGetPlatformIDs(numPlatforms, Platforms, NULL);
\* c->platform = Platforms[0].
L243_GetPlatforms ==
    /\ pc = "L243"
    /\ \E st \in Statuses("clGetPlatformIDs") :
         \E next \in AfterPlatformWrite(loc.numPlatforms, st) :
             /\ Guarded("clGetPlatformIDs", loc.numPlatforms, st,
                        [loc EXCEPT !.err = st], next)
             /\ c' = IF st = CL_SUCCESS /\ next # "crashed"
                       THEN [c EXCEPT ![cur].platform = 1] ELSE c
    /\ UNCHANGED <<rt, objs, op, cur, heap, ret, hist, calls, pure, vec, twin>>

\* Lines 254-255: clGetDeviceIDs(c->platform, GPU, 0, NULL, &numDevices).
L254_GetNumDevices ==
    /\ pc = "L254"
    /\ \E st \in Statuses("clGetDeviceIDs") :
         Guarded("clGetDeviceIDs", 0, st,
                 [loc EXCEPT !.err = st,
                             !.numDevices = IF st = CL_SUCCESS THEN Len(rt.avail)
                                            ELSE loc.numDevices],
                 "L256")
    /\ UNCHANGED <<c, rt, objs, op, cur, heap, ret, hist, calls, pure, vec, twin>>

\* Where the for loop of line 261 goes with counter i.
LoopHead(l) == IF l.i < l.numDevices THEN "L264" ELSE "L287"

\* (A device loop that starts at entry device_id instead of entry 0.)
L256_GetDevices_FromId ==
    /\ pc = "L256"
    /\ heap' = heap \cup {"Devices"}
    /\ \E st \in Statuses("clGetDeviceIDs") :
         LET l == [loc EXCEPT !.err = st, !.i = loc.device_id]
         IN  Guarded("clGetDeviceIDs", loc.numDevices, st, l, LoopHead(l))
    /\ UNCHANGED <<c, rt, objs, op, cur, ret, hist, calls, pure, vec, twin>>

\* Lines 256-258: Devices = malloc(...); clGetDeviceIDs(..., numDevices,
\* Devices, NULL); then the loop is entered with i = 0.
L256_GetDevices ==
    /\ pc = "L256"
    /\ heap' = heap \cup {"Devices"}
    /\ \E st \in Statuses("clGetDeviceIDs") :
         LET l == [loc EXCEPT !.err = st, !.i = 0]
         IN  Guarded("clGetDeviceIDs", loc.numDevices, st, l, LoopHead(l))
    /\ UNCHANGED <<c, rt, objs, op, cur, ret, hist, calls, pure, vec, twin>>

\* Lines 264-268: clGetDeviceInfo(Devices[i], CL_DEVICE_AVAILABLE, ...);
\* an available device becomes AvailableDevice.
L264_ProbeAvailable ==
    /\ pc = "L264"
    /\ \E st \in Statuses("clGetDeviceInfo") :
         LET dev == loc.i + 1
             available == rt.avail[dev]
         IN  Guarded("clGetDeviceInfo", dev, st,
                     [loc EXCEPT !.err = st,
                                 !.AvailableDevice =
                                     IF st = CL_SUCCESS /\ available THEN dev
                                     ELSE loc.AvailableDevice],
                     IF available THEN "L269" ELSE "L276")
    /\ UNCHANGED <<c, rt, objs, op, cur, heap, ret, hist, calls, pure, vec, twin>>

\* Lines 269-272: the name of the available device is read, c->device is set
\* and the loop is left.
L269_ProbeName ==
    /\ pc = "L269"
    /\ \E st \in Statuses("clGetDeviceInfo") :
         /\ Guarded("clGetDeviceInfo_NAME", loc.i + 1, st, [loc EXCEPT !.err = st], "L287")
         /\ c' = IF st = CL_SUCCESS
                   THEN [c EXCEPT ![cur].device = loc.AvailableDevice]
                   ELSE c
    /\ UNCHANGED <<rt, objs, op, cur, heap, ret, hist, calls, pure, vec, twin>>

\* Lines 282-286, the end of the loop body: inside the loop, a NULL
\* AvailableDevice returns -1; otherwise ++i and the loop test.
AfterUnavailable(l) ==
    IF l.AvailableDevice = NULL THEN "return"
    ELSE LoopHead([l EXCEPT !.i = l.i + 1])

\* Lines 276-286: the name of the unavailable device is read (err is not
\* passed to gpuinsp_checkError, the name or the index is printed to stdout),
\* then the test of line 282.
L276_SkipUnavailable ==
    /\ pc = "L276"
    /\ \E st \in Statuses("clGetDeviceInfo") :
         LET l == [loc EXCEPT !.err = st]
             nxt == AfterUnavailable(l)
         IN  /\ log' = Append(log, Ev("clGetDeviceInfo_NAME", loc.i + 1, st))
             /\ IF nxt = "return"
                  THEN /\ loc' = l
                       /\ pc' = "done"
                       /\ ret' = NoAccelerator
                  ELSE /\ loc' = [l EXCEPT !.i = l.i + 1]
                       /\ pc' = nxt
                       /\ ret' = ret
    /\ UNCHANGED <<c, rt, objs, op, cur, heap, diag, hist, calls, pure, vec, twin>>

NewObj(kind, ctx, dev, k) ==
    [kind |-> kind, live |-> TRUE, ctx |-> ctx, dev |-> dev, owner |-> k]

\* Line 287: c->context = clCreateContext(cprops, 1, &AvailableDevice, NULL,
\* NULL, &err).  err is not looked at.  A failed create returns NULL.
L287_CreateContext ==
    /\ pc = "L287"
    /\ LET forced == IF loc.AvailableDevice \in 1..Len(rt.avail) THEN CL_SUCCESS
                     ELSE CL_INVALID_DEVICE
       IN  \E st \in Answers("clCreateContext", forced) :
             LET h == IF st = CL_SUCCESS THEN Len(objs) + 1 ELSE NULL
             IN  /\ objs' = IF st = CL_SUCCESS
                              THEN Append(objs, NewObj("context", NULL,
                                                       loc.AvailableDevice, cur))
                              ELSE objs
                 /\ c' = [c EXCEPT ![cur].context = h]
                 /\ log' = Append(log, Ev("clCreateContext", h, st))
                 /\ loc' = [loc EXCEPT !.err = st]
    /\ pc' = "L291"
    /\ UNCHANGED <<rt, op, cur, heap, diag, ret, hist, calls, pure, vec, twin>>

\* What the arguments of clCreateCommandQueue(context, device, ...) force.
QueueForced(ctx, dev) ==
    IF ~IsLive(ctx, "context") THEN CL_INVALID_CONTEXT
    ELSE IF objs[ctx].dev # dev THEN CL_INVALID_DEVICE
    ELSE CL_SUCCESS

\* Lines 291-292: c->kernel_queue = clCreateCommandQueue(c->context,
\* c->device, 0, &err), guarded.
L291_CreateKernelQueue ==
    /\ pc = "L291"
    /\ \E st \in Answers("clCreateCommandQueue",
                         QueueForced(c[cur].context, c[cur].device)) :
         LET h == IF st = CL_SUCCESS THEN Len(objs) + 1 ELSE NULL
         IN  /\ objs' = IF st = CL_SUCCESS
                          THEN Append(objs, NewObj("queue", c[cur].context,
                                                   c[cur].device, cur))
                          ELSE objs
             /\ c' = [c EXCEPT ![cur].kernel_queue = h]
             /\ Guarded("clCreateCommandQueue", h, st, [loc EXCEPT !.err = st], "L293")
    /\ UNCHANGED <<rt, op, cur, heap, ret, hist, calls, pure, vec, twin>>

\* Lines 293-294: the same for c->io_queue.
L293_CreateIoQueue ==
    /\ pc = "L293"
    /\ \E st \in Answers("clCreateCommandQueue",
                         QueueForced(c[cur].context, c[cur].device)) :
         LET h == IF st = CL_SUCCESS THEN Len(objs) + 1 ELSE NULL
         IN  /\ objs' = IF st = CL_SUCCESS
                          THEN Append(objs, NewObj("queue", c[cur].context,
                                                   c[cur].device, cur))
                          ELSE objs
             /\ c' = [c EXCEPT ![cur].io_queue = h]
             /\ Guarded("clCreateCommandQueue", h, st, [loc EXCEPT !.err = st], "L298")
    /\ UNCHANGED <<rt, op, cur, heap, ret, hist, calls, pure, vec, twin>>

\* Lines 298-300: testdata_cpu = malloc(1024 floats); testdata_gpu =
\* clCreateBuffer(c->context, ..., 1024 floats, NULL, &err), guarded.
L298_TestAlloc ==
    /\ pc = "L298"
    /\ heap' = heap \cup {"testdata_cpu"}
    /\ LET forced == IF IsLive(c[cur].context, "context") THEN CL_SUCCESS
                     ELSE CL_INVALID_CONTEXT
       IN  \E st \in Answers("clCreateBuffer", forced) :
             LET h == IF st = CL_SUCCESS THEN Len(objs) + 1 ELSE NULL
             IN  /\ objs' = IF st = CL_SUCCESS
                              THEN Append(objs, NewObj("buffer", c[cur].context,
                                                       NULL, cur))
                              ELSE objs
                 /\ Guarded("clCreateBuffer", h, st,
                            [loc EXCEPT !.err = st, !.testdata_gpu = h,
                                        !.testdata_cpu = "testdata_cpu"],
                            "L301")
    /\ UNCHANGED <<c, rt, op, cur, ret, hist, calls, pure, vec, twin>>

\* Lines 301-305: the blocking clEnqueueWriteBuffer through c->io_queue,
\* guarded; on success return(0).
L301_TestWrite ==
    /\ pc = "L301"
    /\ LET forced == IF ~IsLive(c[cur].io_queue, "queue") THEN CL_INVALID_COMMAND_QUEUE
                     ELSE IF ~IsLive(loc.testdata_gpu, "buffer") THEN CL_INVALID_MEM_OBJECT
                     ELSE CL_SUCCESS
       IN  \E st \in Answers("clEnqueueWriteBuffer", forced) :
             /\ log' = Append(log, Ev("clEnqueueWriteBuffer", c[cur].io_queue, st))
             /\ diag' = CheckError(diag, "clEnqueueWriteBuffer", st)
             /\ loc' = [loc EXCEPT !.err = st]
             /\ IF Fails("clEnqueueWriteBuffer", st)
                  THEN pc' = "cleanup" /\ ret' = ret
                  ELSE pc' = "done" /\ ret' = 0
    /\ UNCHANGED <<c, rt, objs, op, cur, heap, hist, calls, pure, vec, twin>>
\* (A teardown that releases io_queue only when there is no kernel_queue.)
DestroyGPU_Releases_ElseIf(ctx) ==
    IF ctx.kernel_queue # NULL
      THEN <<[f |-> "clReleaseCommandQueue", h |-> ctx.kernel_queue]>>
    ELSE IF ctx.io_queue # NULL
      THEN <<[f |-> "clReleaseCommandQueue", h |-> ctx.io_queue]>>
    ELSE <<>>

\* (A teardown that also releases the execution context.)
DestroyGPU_Releases_WithContext(ctx) ==
    (IF ctx.kernel_queue # NULL
       THEN <<[f |-> "clReleaseCommandQueue", h |-> ctx.kernel_queue]>> ELSE <<>>)
    \o
    (IF ctx.io_queue # NULL
       THEN <<[f |-> "clReleaseCommandQueue", h |-> ctx.io_queue]>> ELSE <<>>)
    \o
    (IF ctx.context # NULL
       THEN <<[f |-> "clReleaseContext", h |-> ctx.context]>> ELSE <<>>)


----------------------------------------------------------------------------
\* gpuinsp_DestroyGPU, lines 214-215: the release calls it issues, in order.
DestroyGPU_Releases(ctx) ==
    (IF ctx.kernel_queue # NULL
       THEN <<[f |-> "clReleaseCommandQueue", h |-> ctx.kernel_queue]>> ELSE <<>>)
    \o
    (IF ctx.io_queue # NULL
       THEN <<[f |-> "clReleaseCommandQueue", h |-> ctx.io_queue]>> ELSE <<>>)

\* (A cleanup that forgets the self-test buffer.)
Cleanup_Releases_NoBuffer(ctx, l) == DestroyGPU_Releases(ctx)

\* The cleanup label, lines 309-311: the release calls issued, in order.
\* free(testdata_cpu) is a host call and is not among them.
Cleanup_Releases(ctx, l) ==
    DestroyGPU_Releases(ctx)
    \o
    (IF l.testdata_gpu # NULL
       THEN <<[f |-> "clReleaseMemObject", h |-> l.testdata_gpu]>> ELSE <<>>)

KindOf(f) == IF f = "clReleaseCommandQueue" THEN "queue" ELSE "buffer"

InvalidOf(f) ==
    IF f = "clReleaseCommandQueue" THEN CL_INVALID_COMMAND_QUEUE
    ELSE CL_INVALID_MEM_OBJECT

\* The runtime serving a sequence of release calls from object table o:
\* the table and the events after them.  A release of a live object of the
\* right kind ends its life; any other handle is answered as invalid.
RECURSIVE RunReleases(_, _)
RunReleases(o, rs) ==
    IF rs = <<>> THEN [objs |-> o, log |-> <<>>]
    ELSE LET r == rs[1]
             ok == r.h \in 1..Len(o) /\ o[r.h].kind = KindOf(r.f) /\ o[r.h].live
             o1 == IF ok THEN [o EXCEPT ![r.h].live = FALSE] ELSE o
             st == IF ok THEN CL_SUCCESS ELSE InvalidOf(r.f)
             rest == RunReleases(o1, Tail(rs))
         IN  [objs |-> rest.objs, log |-> <<Ev(r.f, r.h, st)>> \o rest.log]

\* Lines 308-312: gpuinsp_DestroyGPU(c); free testdata_cpu if set; release
\* testdata_gpu if non-NULL; return(err).
Cleanup ==
    /\ pc = "cleanup"
    /\ LET r == RunReleases(objs, Cleanup_Releases(c[cur], loc))
       IN  /\ objs' = r.objs
           /\ log' = log \o <<Ev("gpuinsp_DestroyGPU", cur, 0)>> \o r.log
    /\ heap' = IF loc.testdata_cpu # "NULL" THEN heap \ {loc.testdata_cpu} ELSE heap
    /\ ret' = loc.err
    /\ pc' = "done"
    /\ UNCHANGED <<c, rt, op, cur, loc, diag, hist, calls, pure, vec, twin>>

\* (A teardown that works on one file-level record whatever it is given.)
DestroyGPU_Static(k) ==
    /\ pc = "idle"
    /\ calls < MaxCalls
    /\ calls' = calls + 1
    /\ op' = "destroy"
    /\ cur' = k
    /\ LET r == RunReleases(objs, DestroyGPU_Releases(c[1]))
       IN  /\ objs' = r.objs
           /\ log' = <<Ev("gpuinsp_DestroyGPU", k, 0)>> \o r.log
    /\ diag' = <<>>
    /\ loc' = NoLocals
    /\ heap' = {}
    /\ ret' = 0
    /\ pc' = "done"
    /\ UNCHANGED <<c, rt, hist, pure, vec, twin>>

\* A call of gpuinsp_DestroyGPU(c) by the owner of record k: lines 213-217.
\* The fields of the record are left as they were; it returns 0.
DestroyGPU(k) ==
    /\ pc = "idle"
    /\ calls < MaxCalls
    /\ calls' = calls + 1
    /\ op' = "destroy"
    /\ cur' = k
    /\ LET r == RunReleases(objs, DestroyGPU_Releases(c[k]))
       IN  /\ objs' = r.objs
           /\ log' = <<Ev("gpuinsp_DestroyGPU", k, 0)>> \o r.log
    /\ diag' = <<>>
    /\ loc' = NoLocals
    /\ heap' = {}
    /\ ret' = 0
    /\ pc' = "done"
    /\ UNCHANGED <<c, rt, hist, pure, vec, twin>>

\* The call returns to its caller: its frame is gone, and what it was and
\* what it returned is remembered as the preceding call.
Return ==
    /\ pc = "done"
    /\ hist' = [op |-> op, k |-> cur, ret |-> ret]
    /\ pc' = "idle"
    /\ op' = "none"
    /\ cur' = 0
    /\ loc' = NoLocals
    /\ heap' = {}
    /\ log' = <<>>
    /\ diag' = <<>>
    /\ ret' = 0
    /\ UNCHANGED <<c, rt, objs, calls, pure, vec, twin>>

----------------------------------------------------------------------------
\* What the properties below read off a finished call.

Done(o) == pc = "done" /\ op = o

Releases == {"clReleaseCommandQueue", "clReleaseMemObject"}

\* The steps of a build that the error guard is meant to gate.
BuildSteps ==
    {"clGetPlatformIDs", "clGetDeviceIDs", "clGetDeviceInfo", "clCreateContext",
     "clCreateCommandQueue", "clCreateBuffer", "clEnqueueWriteBuffer"}

Creates == {"clCreateContext", "clCreateCommandQueue", "clCreateBuffer"}

Issued(fs) == {i \in DOMAIN log : log[i].f \in fs}

FailedSteps == {i \in Issued(BuildSteps) : log[i].st # CL_SUCCESS}

AllSucceeded == \A i \in DOMAIN log : log[i].st = CL_SUCCESS

HasAvailable == \E j \in DOMAIN rt.avail : rt.avail[j]

FirstAvailable ==
    CHOOSE j \in DOMAIN rt.avail : rt.avail[j] /\ \A m \in 1..(j - 1) : ~rt.avail[m]

\* The objects the running build created.
CreatedHere == (loc.base + 1)..Len(objs)

\* C1: with every hardware call succeeding and some enumerated device
\* available, the build succeeds and the record's device is the first
\* available device of the enumeration (D2 for [D1 unavailable, D2 available]).
C1_FirstAvailableSelected ==
    (Done("init") /\ AllSucceeded /\ rt.nplat > 0 /\ HasAvailable)
        => (ret = 0 /\ c[cur].device = FirstAvailable)

\* C2: a gpuinsp_DestroyGPU that follows a failed gpuinsp_InitGPU on the same
\* record issues no queue release.
C2_NoReleaseAfterFailedBuild ==
    (Done("destroy") /\ hist.op = "init" /\ hist.ret # 0 /\ hist.k = cur)
        => Issued({"clReleaseCommandQueue"}) = {}

\* C3: the second of two gpuinsp_DestroyGPU calls in a row on the same record
\* performs no release.
C3_SecondDestroyReleasesNothing ==
    (Done("destroy") /\ hist.op = "destroy" /\ hist.k = cur)
        => Issued({"clReleaseCommandQueue"}) = {}

\* C4: when gpuinsp_InitGPU returns success, the host scratch block is freed
\* and no self-test device buffer created by the build is live.
C4_SelfTestReleasedOnSuccess ==
    (Done("init") /\ ret = 0)
        => /\ "testdata_cpu" \notin heap
           /\ \A h \in CreatedHere : objs[h].kind = "buffer" => ~objs[h].live

\* C5: when gpuinsp_InitGPU returns a failure, every queue and every
\* self-test buffer the build created has been released and the host
\* scratch block is freed.
C5_FailureReleasesCreated ==
    (Done("init") /\ ret # 0)
        => /\ "testdata_cpu" \notin heap
           /\ \A h \in CreatedHere :
                  objs[h].kind \in {"queue", "buffer"}
                      => /\ ~objs[h].live
                         /\ \E i \in Issued(Releases) :
                                log[i].h = h /\ KindOf(log[i].f) = objs[h].kind

\* C5 witness: the build failed in the self-test write, after it created
\* both queues and the test buffer.
C5_Witness ==
    /\ Done("init")
    /\ ret # 0
    /\ \E i \in Issued({"clEnqueueWriteBuffer"}) : log[i].st # CL_SUCCESS
    /\ Cardinality({h \in CreatedHere : objs[h].kind = "queue"}) = 2
    /\ \E h \in CreatedHere : objs[h].kind = "buffer"

\* C6: every failure return of gpuinsp_InitGPU is preceded, in the same call,
\* by an invocation of gpuinsp_DestroyGPU.
C6_FailureTearsDown ==
    (Done("init") /\ ret # 0) => Issued({"gpuinsp_DestroyGPU"}) # {}

\* C7: when a step of the build fails, gpuinsp_InitGPU returns the status of
\* the first step that failed.
C7_ReturnsFirstFailure ==
    (Done("init") /\ FailedSteps # {})
        => ret = log[CHOOSE i \in FailedSteps : \A j \in FailedSteps : i <= j].st

\* C8: success is returned only if every step succeeded, and after a failed
\* step no later construction step is issued.
C8_EveryStepGated ==
    op = "init"
        => /\ (pc = "done" /\ ret = 0) => FailedSteps = {}
           /\ \A i \in FailedSteps : \A j \in Issued(BuildSteps) : j <= i

\* C9: when the platform count is read successfully as zero, gpuinsp_InitGPU
\* returns -1, has created no runtime object, and no host block it allocated
\* is still live.
C9_EmptyPlatformsLeaveNothing ==
    (Done("init") /\ rt.nplat = 0 /\ log[1].st = CL_SUCCESS)
        => (ret = NoAccelerator /\ CreatedHere = {} /\ heap = {})

\* C10: when the devices were enumerated and probed without failure and none
\* is available (or there is none), gpuinsp_InitGPU returns -1 and issues no
\* context or queue creation.
C10_NoDeviceNoContext ==
    (/\ Done("init")
     /\ Cardinality({i \in Issued({"clGetDeviceIDs"}) : log[i].st = CL_SUCCESS}) = 2
     /\ \A i \in Issued({"clGetDeviceInfo"}) : log[i].st = CL_SUCCESS
     /\ ~HasAvailable)
        => (ret = NoAccelerator
            /\ Issued({"clCreateContext", "clCreateCommandQueue"}) = {})

\* C11: a return of gpuinsp_InitGPU caused by a failing hardware call never
\* carries the value returned for "no platform" or "no available device".
C11_NoAcceleratorDistinct ==
    (Done("init") /\ FailedSteps # {}) => ret # NoAccelerator

----------------------------------------------------------------------------
\* The error functions called on their own, on any status and any of the
\* labels the source uses.

\* No build or teardown is running or has run.
QuietMain ==
    /\ c = [k \in Contexts |->
                [platform |-> NULL, device |-> NULL, context |-> NULL,
                 kernel_queue |-> NULL, io_queue |-> NULL]]
    /\ rt = [nplat |-> 0, avail |-> <<>>]
    /\ objs = <<>>
    /\ pc = "idle"
    /\ op = "none"
    /\ cur = 0
    /\ loc = NoLocals
    /\ heap = {}
    /\ log = <<>>
    /\ diag = <<>>
    /\ ret = 0
    /\ hist = NoCall
    /\ calls = 0
    /\ twin = NoTwin

ErrInputs == (0 - MaxAbsErr)..MaxAbsErr

Labels ==
    {"Determining number of platforms", "Test allocation in GPU memory",
     "Test writing to  GPU memory"}

InitErr ==
    /\ QuietMain
    /\ \E e \in ErrInputs, s \in Labels :
         pure = [NoPure EXCEPT !.err = e, !.errstr = s]
    /\ vec = NoVec

\* gpuinsp_checkError(err, errstr): what it returns and what it writes.
Call_checkError ==
    /\ pure.fn = "none"
    /\ LET r == gpuinsp_checkError(pure.err, pure.errstr)
       IN  pure' = [pure EXCEPT !.fn = "gpuinsp_checkError",
                                !.ret = r.ret, !.out = r.out]
    /\ UNCHANGED <<c, rt, objs, pc, op, cur, loc, heap, log, diag, ret, hist,
                   calls, vec, twin>>

\* gpuinsp_getErrMessage(errMessage, err): what it copies into errMessage.
Call_getErrMessage ==
    /\ pure.fn = "none"
    /\ pure' = [pure EXCEPT !.fn = "gpuinsp_getErrMessage",
                            !.errMessage = gpuinsp_getErrMessage(pure.err)]
    /\ UNCHANGED <<c, rt, objs, pc, op, cur, loc, heap, log, diag, ret, hist,
                   calls, vec, twin>>

NextErr == Call_checkError \/ Call_getErrMessage

SpecErr == InitErr /\ [][NextErr]_vars

\* C12: gpuinsp_checkError returns its status argument; it writes nothing
\* for CL_SUCCESS and exactly one line, carrying the label and the code, for
\* any other status.
C12_CheckErrorContract ==
    pure.fn = "gpuinsp_checkError"
        => /\ pure.ret = pure.err
           /\ pure.err = CL_SUCCESS => pure.out = <<>>
           /\ pure.err # CL_SUCCESS
                  => /\ Len(pure.out) = 1
                     /\ pure.out[1].label = pure.errstr
                     /\ pure.out[1].code = pure.err

\* C12 witness: a failing status was checked and one line was written.
C12_Witness ==
    /\ pure.fn = "gpuinsp_checkError"
    /\ pure.err = CL_OUT_OF_RESOURCES
    /\ Len(pure.out) = 1
    /\ pure.ret = CL_OUT_OF_RESOURCES

\* The codes the switch has a case for.
Recognized == ((0 - 12)..0) \cup ((0 - 63)..(0 - 30))

\* C13: gpuinsp_getErrMessage yields a non-empty name for every integer:
\* "Unknown error" exactly for the codes without a case, and the code's own
\* symbolic name for the codes with one (stated for the codes named here).
C13_ErrMessageTotal ==
    pure.fn = "gpuinsp_getErrMessage"
        => /\ pure.errMessage # ""
           /\ pure.err \in Recognized <=> pure.errMessage # "Unknown error"
           /\ pure.err = CL_SUCCESS => pure.errMessage = "CL_SUCCESS"
           /\ pure.err = CL_DEVICE_NOT_FOUND
                  => pure.errMessage = "CL_DEVICE_NOT_FOUND"
           /\ pure.err = CL_OUT_OF_RESOURCES
                  => pure.errMessage = "CL_OUT_OF_RESOURCES"
           /\ pure.err = CL_INVALID_DEVICE => pure.errMessage = "CL_INVALID_DEVICE"
           /\ pure.err = CL_INVALID_CONTEXT
                  => pure.errMessage = "CL_INVALID_CONTEXT"
           /\ pure.err = CL_INVALID_COMMAND_QUEUE
                  => pure.errMessage = "CL_INVALID_COMMAND_QUEUE"
           /\ pure.err = CL_INVALID_MEM_OBJECT
                  => pure.errMessage = "CL_INVALID_MEM_OBJECT"
           /\ pure.err = 0 - 63
                  => pure.errMessage = "CL_INVALID_GLOBAL_WORK_SIZE"

\* C13 witness: a code without a case (-13, whose case is commented out) was
\* translated to "Unknown error".
C13_Witness ==
    /\ pure.fn = "gpuinsp_getErrMessage"
    /\ pure.err = 0 - 13
    /\ pure.errMessage = "Unknown error"

----------------------------------------------------------------------------
\* The data vectors of datavector/clayer/opencl/datavectoropencl.c.  vec is
\* the vector under construction or destruction: blocks are the host blocks
\* it allocated that are still live, data is what its field `data` holds
\* (a block, "NULL", or "garbage" for a pointer that names no block), bad
\* records a free() of a pointer that names no block.

VecLengths == (1..MaxVecLen) \cup {1024}

\* CONSTRUCTOR_TEMPLATE(type, element): allocates the struct c and fills
\* c->meta_data from length and delta_x; the pointer fields are not set, so
\* `data` holds d, whatever the fresh struct happens to contain.
CONSTRUCTOR_TEMPLATE(kind, length, d) ==
    [kind |-> kind, length |-> length, state |-> "allocated",
     blocks |-> {"struct"}, data |-> d, bad |-> FALSE]

InitVec == QuietMain /\ pure = NoPure /\ vec = NoVec

MainVars == <<c, rt, objs, pc, op, cur, loc, heap, log, diag, ret, hist, calls,
              twin>>

\* new_real_vector_single_t, lines 40-57: c->real_data and c->imag_data are
\* allocated with calloc; c->data is not assigned.
new_real_vector_single_t(length) ==
    /\ vec.state = "none"
    /\ \E d \in {"NULL", "garbage", "real_data", "imag_data"} :
         vec' = [CONSTRUCTOR_TEMPLATE("real_single", length, d)
                   EXCEPT !.blocks = @ \cup {"real_data", "imag_data"}]
    /\ UNCHANGED <<MainVars, pure>>

\* The constructors of lines 64-71, 79-86 and 95-102: c->data = calloc(...).
NewWithData(kind, length) ==
    /\ vec.state = "none"
    /\ vec' = [CONSTRUCTOR_TEMPLATE(kind, length, "NULL")
                 EXCEPT !.blocks = @ \cup {"data"}, !.data = "data"]
    /\ UNCHANGED <<MainVars, pure>>

new_real_vector_double_t(length) == NewWithData("real_double", length)

new_complex_vector_single_t(length) == NewWithData("complex_single", length)

new_complex_vector_double_t(length) == NewWithData("complex_double", length)

\* The body all four destructors share: free( p->data ); free( p ).
FreeDataAndStruct(v) ==
    [v EXCEPT !.state = "deleted",
              !.blocks = (@ \ {v.data}) \ {"struct"},
              !.bad = v.data \notin (v.blocks \cup {"NULL"})]

\* delete_real_vector_single_t, lines 59-63, and the destructors of lines
\* 73-77, 88-93 and 104-108.
delete_vector(kind) ==
    /\ vec.state = "allocated"
    /\ vec.kind = kind
    /\ vec' = FreeDataAndStruct(vec)
    /\ UNCHANGED <<MainVars, pure>>

delete_real_vector_single_t == delete_vector("real_single")

delete_real_vector_double_t == delete_vector("real_double")

delete_complex_vector_single_t == delete_vector("complex_single")

delete_complex_vector_double_t == delete_vector("complex_double")

NextVec ==
    \/ \E n \in VecLengths : new_real_vector_single_t(n)
    \/ \E n \in VecLengths : new_real_vector_double_t(n)
    \/ \E n \in VecLengths : new_complex_vector_single_t(n)
    \/ \E n \in VecLengths : new_complex_vector_double_t(n)
    \/ delete_real_vector_single_t
    \/ delete_real_vector_double_t
    \/ delete_complex_vector_single_t
    \/ delete_complex_vector_double_t

SpecVec == InitVec /\ [][NextVec]_vars

\* C14: after a vector of any kind was allocated and released, no block its
\* allocation created is live.
C14_ReleaseFreesAll == vec.state = "deleted" => vec.blocks = {}

----------------------------------------------------------------------------
\* Two records owned by two callers, built and torn down by whole calls in
\* any order.  The runtime has at most one platform with at most one device:
\* the build never looks past the first device.
TwoContexts == {1, 2}

InitTwo ==
    /\ c = [k \in TwoContexts |->
                [platform |-> NULL, device |-> NULL, context |-> NULL,
                 kernel_queue |-> NULL, io_queue |-> NULL]]
    /\ \E n \in 0..1, av \in Seqs(BOOLEAN, 1) :
         /\ n = 0 => av = <<>>
         /\ rt = [nplat |-> n, avail |-> av]
    /\ objs = <<>>
    /\ pc = "idle"
    /\ op = "none"
    /\ cur = 0
    /\ loc = NoLocals
    /\ heap = {}
    /\ log = <<>>
    /\ diag = <<>>
    /\ ret = 0
    /\ hist = NoCall
    /\ calls = 0
    /\ twin = NoTwin
    /\ pure = NoPure
    /\ vec = NoVec

Next ==
    \/ \E k \in DOMAIN c : Call_InitGPU(k)
    \/ L238_GetNumPlatforms
    \/ L243_GetPlatforms
    \/ L254_GetNumDevices
    \/ L256_GetDevices
    \/ L264_ProbeAvailable
    \/ L269_ProbeName
    \/ L276_SkipUnavailable
    \/ L287_CreateContext
    \/ L291_CreateKernelQueue
    \/ L293_CreateIoQueue
    \/ L298_TestAlloc
    \/ L301_TestWrite
    \/ Cleanup
    \/ \E k \in DOMAIN c : DestroyGPU(k)
    \/ Return

Spec == Init /\ [][Next]_vars

SpecTwo == InitTwo /\ [][Next]_vars

C16_QueuesMatchRecord ==
    pc \in {"idle", "done"} =>
        \A k \in DOMAIN c :
            \A q \in {c[k].kernel_queue, c[k].io_queue} \ {NULL} :
                /\ q \in 1..Len(objs)
                /\ objs[q].kind = "queue"
                /\ objs[q].ctx = c[k].context
                /\ objs[q].dev = c[k].device

\* The handles gpuinsp_DestroyGPU has to release for record r, in order.
QueuesOf(r) ==
    (IF r.kernel_queue # NULL THEN <<r.kernel_queue>> ELSE <<>>)
    \o (IF r.io_queue # NULL THEN <<r.io_queue>> ELSE <<>>)

IsQueueRelease(e) == e.f = "clReleaseCommandQueue"

QueueReleases == SelectSeq(log, IsQueueRelease)

\* C17: whenever gpuinsp_DestroyGPU has run (called directly or from the
\* cleanup of a build), the queue releases issued are kernel_queue first, if
\* present, and io_queue second, if present, whatever the first one answered.
C17_KernelThenIo ==
    (pc = "done" /\ Issued({"gpuinsp_DestroyGPU"}) # {}) =>
        [i \in DOMAIN QueueReleases |-> QueueReleases[i].h] = QueuesOf(c[cur])

\* C17 witness: a teardown whose kernel_queue release was answered as invalid
\* and whose io_queue release was issued after it.
C17_Witness ==
    /\ Done("destroy")
    /\ Len(QueueReleases) = 2
    /\ QueueReleases[1].h = c[cur].kernel_queue
    /\ QueueReleases[1].st # CL_SUCCESS
    /\ QueueReleases[2].h = c[cur].io_queue
    /\ c[cur].kernel_queue # c[cur].io_queue

\* C18: a call of gpuinsp_DestroyGPU issues queue releases of the record's
\* two queue fields and nothing else, ends the life of no object that is not
\* a queue, and leaves every field of the record as it was.
C18_OnlyQueuesReleased ==
    /\ [](Done("destroy") =>
            \A i \in DOMAIN log :
                \/ log[i].f = "gpuinsp_DestroyGPU"
                \/ /\ log[i].f = "clReleaseCommandQueue"
                   /\ log[i].h \in {c[cur].kernel_queue, c[cur].io_queue})
    /\ [][op' = "destroy" =>
            /\ c' = c
            /\ \A h \in 1..Len(objs) :
                   objs[h].kind # "queue" => objs'[h] = objs[h]]_vars

\* C18 witness: a teardown of a built record released both queues while the
\* record still names its live context and its device.
C18_Witness ==
    /\ Done("destroy")
    /\ Len(QueueReleases) = 2
    /\ \A i \in DOMAIN QueueReleases : QueueReleases[i].st = CL_SUCCESS
    /\ IsLive(c[cur].context, "context")
    /\ c[cur].device # NULL

\* The hardware calls of the call in progress that failed.
FailedCalls == {i \in DOMAIN log : log[i].st # CL_SUCCESS}

\* C19: when a call has run, every failing hardware call it issued has
\* produced one diagnostic line.
C19_EveryFailureReported == pc = "done" => Len(diag) = Cardinality(FailedCalls)

\* C20: when a build has run, every release it issued was of a live handle
\* that a create call of this same build returned.
C20_ReleasesOwnLiveHandles ==
    Done("init") =>
        \A i \in Issued(Releases) :
            /\ log[i].h \in CreatedHere
            /\ log[i].st = CL_SUCCESS

\* C21: the number of platform handles gpuinsp_InitGPU asks the runtime to
\* write into its platform array never exceeds the capacity of the array.
C21_PlatformRequestFits ==
    \A i \in Issued({"clGetPlatformIDs"}) : log[i].h <= PlatformCapacity

----------------------------------------------------------------------------
\* Two builds from the same state with different device_id arguments.

\* The state a build is about to start from is remembered; at most
\* MaxEarlier calls came before it.
Mark ==
    /\ pc = "idle"
    /\ twin.phase = "off"
    /\ calls <= MaxEarlier
    /\ calls < MaxCalls
    /\ twin' = [twin EXCEPT !.phase = "armed", !.calls0 = calls,
                            !.c0 = c, !.objs0 = objs]
    /\ UNCHANGED <<c, rt, objs, pc, op, cur, loc, heap, log, diag, ret, hist,
                   calls, pure, vec>>

\* The build that started from the remembered state has run: what it did is
\* kept, and gpuinsp_InitGPU(c, d) is entered again from the remembered state
\* (lines 222-236) with another device_id and the same indeterminate
\* testdata_gpu.
Call_InitGPU_Again ==
    /\ pc = "done"
    /\ op = "init"
    /\ twin.phase = "armed"
    /\ calls = twin.calls0 + 1
    /\ twin' = [twin EXCEPT !.phase = "second",
                            !.device_id = loc.device_id,
                            !.testdata_gpu = loc.testdata_gpu,
                            !.log = log, !.diag = diag, !.ret = ret,
                            !.c = c, !.objs = objs]
    /\ c' = twin.c0
    /\ objs' = twin.objs0
    /\ \E d \in DeviceIds \ {loc.device_id} :
         loc' = [NoLocals EXCEPT !.testdata_gpu = loc.testdata_gpu,
                                 !.base = Len(twin.objs0),
                                 !.device_id = d]
    /\ heap' = {"Platforms"}
    /\ log' = <<>>
    /\ diag' = <<>>
    /\ ret' = 0
    /\ pc' = "L238"
    /\ UNCHANGED <<rt, op, cur, hist, calls, pure, vec>>

\* The comparison: at most MaxEarlier whole calls, then the two builds; it
\* ends when the second build has run.
InComparison ==
    /\ ~(twin.phase = "second" /\ pc = "done")
    /\ (twin.phase = "off" /\ pc = "idle") => calls < MaxEarlier

\* One record; the runtime has at most one platform and up to two devices
\* under it.
InitDev ==
    /\ c = [k \in Contexts |->
                [platform |-> NULL, device |-> NULL, context |-> NULL,
                 kernel_queue |-> NULL, io_queue |-> NULL]]
    /\ \E n \in 0..1, av \in Seqs(BOOLEAN, 2) :
         /\ n = 0 => av = <<>>
         /\ rt = [nplat |-> n, avail |-> av]
    /\ objs = <<>>
    /\ pc = "idle"
    /\ op = "none"
    /\ cur = 0
    /\ loc = NoLocals
    /\ heap = {}
    /\ log = <<>>
    /\ diag = <<>>
    /\ ret = 0
    /\ hist = NoCall
    /\ calls = 0
    /\ twin = NoTwin
    /\ pure = NoPure
    /\ vec = NoVec

NextDev ==
    \/ Mark
    \/ Call_InitGPU_Again
    \/ InComparison /\ Next

SpecDev == InitDev /\ [][NextDev]_vars

\* The second build is running or has just run.
InSecond == twin.phase = "second" /\ op = "init" /\ calls = twin.calls0 + 1

\* The two builds have issued the same calls with the same answers up to
\* (not including) call number i.
SameBefore(i) == \A j \in 1..(i - 1) : log[j] = twin.log[j]

\* The handle (or count) a call was given: a create call is given none, the
\* handle in its event is the one it returned.
HandleGiven(e) == IF e.f \in Creates THEN NULL ELSE e.h

\* C22: two builds from the same state with different device_id values:
\* as long as the runtime has answered the same, the next hardware call is
\* the same call on the same handle, and returns the same handle if it is
\* answered the same; neither build ends while the other goes
\* on; and when all answers were the same, the result, the record (platform
\* and device included), the diagnostics and the runtime's objects are the
\* same.
C22_DeviceIdIgnored ==
    InSecond =>
        /\ loc.device_id # twin.device_id
        /\ \A i \in DOMAIN log \cap DOMAIN twin.log :
               SameBefore(i) =>
                   /\ log[i].f = twin.log[i].f
                   /\ HandleGiven(log[i]) = HandleGiven(twin.log[i])
                   /\ log[i].st = twin.log[i].st => log[i].h = twin.log[i].h
        /\ pc = "done" =>
               /\ (Len(log) < Len(twin.log)) => ~SameBefore(Len(log) + 1)
               /\ (Len(twin.log) < Len(log)) => ~SameBefore(Len(twin.log) + 1)
               /\ log = twin.log =>
                      /\ ret = twin.ret
                      /\ c = twin.c
                      /\ diag = twin.diag
                      /\ objs = twin.objs

\* C22 witness: both builds succeeded, with different device_id values, and
\* chose the same platform and device.
C22_Witness ==
    /\ InSecond
    /\ pc = "done"
    /\ loc.device_id # twin.device_id
    /\ log = twin.log
    /\ ret = CL_SUCCESS
    /\ IsLive(c[cur].io_queue, "queue")
    /\ c[cur].platform = 1
    /\ c[cur].device = twin.c[cur].device
    /\ c[cur].device # NULL
====
